---------------------------- MODULE Spec2Model ----------------------------
(***************************************************************************)
(* Model of the caching service (mosafdarr/caching-service).               *)
(*                                                                         *)
(*   routers/caches.py            the two decorators check_redis_cache and *)
(*                                cache_read_through, the process-local    *)
(*                                registries and their lock                *)
(*   controllers/cache_controller CacheController.create / get and the two *)
(*                                store helpers                            *)
(*   utils/caching_utils.py       calculate_payload_hash, exception_handler*)
(*   apps/transformer.py          TransformerApp                           *)
(*   schema/tables.py             the cache_payloads table                 *)
(*   models/cache_model.py        the request model and its validator      *)
(*                                                                         *)
(* A string is a sequence of one-character strings.  The payload is the    *)
(* pydantic model CreateCachePayloadRequest: a record of two lists of      *)
(* strings.                                                                *)
(***************************************************************************)
EXTENDS Integers, Sequences, FiniteSets, TLC

(***************************************************************************)
(* Bounds of the model.                                                    *)
(***************************************************************************)
\* number of HTTP requests served over the life of the model
NReq == 3
\* number of process restarts (module re-import empties the registries)
MaxRestarts == 1
\* the three size caps of transformer.py, scaled down from 100_000, 8_192
\* and 5_000_000 so that payloads on both sides of each cap are small
MAX_ITEMS == 2
MAX_ITEM_LENGTH == 3
MAX_TOTAL_OUTPUT_CHARS == 12

(***************************************************************************)
(* Characters.  TAB, LF, CR, VT and FF stand for the characters \t, \n,    *)
(* \r, \v and \f; SZ stands for the German sharp s, whose upper-case form  *)
(* is the two characters "SS".                                             *)
(***************************************************************************)
Whitespace == {" ", "TAB", "LF", "CR", "VT", "FF"}

IsSpace(c) == c \in Whitespace

\* str.upper() on one character
UpperChar(c) ==
    CASE c = "a" -> <<"A">>
      [] c = "b" -> <<"B">>
      [] c = "c" -> <<"C">>
      [] c = "SZ" -> <<"S", "S">>
      [] OTHER -> <<c>>

RECURSIVE Upper(_)
Upper(s) == IF s = <<>> THEN <<>> ELSE UpperChar(Head(s)) \o Upper(Tail(s))

RECURSIVE Join(_, _)
\* sep.join(ss)
Join(sep, ss) ==
    IF ss = <<>> THEN <<>>
    ELSE IF Len(ss) = 1 THEN Head(ss)
    ELSE Head(ss) \o sep \o Join(sep, Tail(ss))

(***************************************************************************)
(* TransformerApp                                                          *)
(***************************************************************************)
RECURSIVE LStrip(_)
LStrip(s) == IF s # <<>> /\ IsSpace(Head(s)) THEN LStrip(Tail(s)) ELSE s

RECURSIVE RStrip(_)
RStrip(s) ==
    IF s # <<>> /\ IsSpace(s[Len(s)]) THEN RStrip(SubSeq(s, 1, Len(s) - 1)) ELSE s

\* str.strip()
Strip(s) == RStrip(LStrip(s))

RECURSIVE Split(_)
\* str.split(): the maximal runs of non-whitespace characters
Split(s) ==
    LET t == LStrip(s)
        n == IF \E i \in 1..Len(t) : IsSpace(t[i])
             THEN (CHOOSE i \in 1..Len(t) :
                      IsSpace(t[i]) /\ \A j \in 1..(i - 1) : ~IsSpace(t[j])) - 1
             ELSE Len(t)
    IN  IF t = <<>> THEN <<>>
        ELSE <<SubSeq(t, 1, n)>> \o Split(SubSeq(t, n + 1, Len(t)))

\* the test of the fast path: no double space, no \t, no \n, no \r
NeedsCollapse(s) ==
    \/ \E i \in 1..(Len(s) - 1) : s[i] = " " /\ s[i + 1] = " "
    \/ \E i \in 1..Len(s) : s[i] \in {"TAB", "LF", "CR"}

CollapseWhitespace(s) ==
    LET t == Strip(s)
    IN  IF ~NeedsCollapse(t) THEN t ELSE Join(<<" ">>, Split(t))

\* the value None, a value that is neither list nor tuple, and a list
\* element that is no str
NoneList == << <<"None">> >>
NotAList == << <<"NotAList">> >>
NonStr == <<"NonStr">>

ValueError(msg) == [ok |-> FALSE, output |-> <<>>, error |-> "ValueError", msg |-> msg]

\* _ensure_is_sequence_of_str: "" when the list passes, else the message
EnsureIsSequenceOfStr(value) ==
    IF value = NotAList THEN "must be a list of strings"
    ELSE IF Len(value) > MAX_ITEMS THEN "exceeds maximum allowed items"
    ELSE IF \E i \in 1..Len(value) : value[i] = NonStr
         THEN "All elements must be strings"
    ELSE ""

\* an item of exactly MAX_ITEM_LENGTH characters refused
ItemTooLong_Inclusive(item) == Len(CollapseWhitespace(item)) >= MAX_ITEM_LENGTH

\* _normalize_item: the normalized item fits the per-item cap
ItemTooLong(item) == Len(CollapseWhitespace(item)) > MAX_ITEM_LENGTH

\* the second list appended to the first instead of alternating with it
Interleave_Concat(l1, l2) == l1 \o l2

RECURSIVE Interleave(_, _)
\* for a, b in zip(normalized_1, normalized_2): interleaved.extend([a, b])
Interleave(l1, l2) ==
    IF l1 = <<>> \/ l2 = <<>> THEN <<>>
    ELSE <<Head(l1), Head(l2)>> \o Interleave(Tail(l1), Tail(l2))

Transform(payload) ==
    IF payload.list_1 = NoneList \/ payload.list_2 = NoneList
    THEN ValueError("payload must contain keys list_1 and list_2")
    ELSE IF EnsureIsSequenceOfStr(payload.list_1) # ""
    THEN ValueError(EnsureIsSequenceOfStr(payload.list_1))
    ELSE IF EnsureIsSequenceOfStr(payload.list_2) # ""
    THEN ValueError(EnsureIsSequenceOfStr(payload.list_2))
    ELSE IF Len(payload.list_1) # Len(payload.list_2)
    THEN ValueError("list_1 and list_2 must be of the same length")
    ELSE IF \/ \E i \in 1..Len(payload.list_1) : ItemTooLong(payload.list_1[i])
            \/ \E i \in 1..Len(payload.list_2) : ItemTooLong(payload.list_2[i])
    THEN ValueError("exceeds maximum allowed length")
    ELSE LET normalized_1 == [i \in 1..Len(payload.list_1) |->
                                 CollapseWhitespace(payload.list_1[i])]
             normalized_2 == [i \in 1..Len(payload.list_2) |->
                                 CollapseWhitespace(payload.list_2[i])]
             joined == Join(<<",", " ">>, Interleave(normalized_1, normalized_2))
         IN  IF Len(joined) > MAX_TOTAL_OUTPUT_CHARS
             THEN ValueError("Final output exceeds maximum allowed length")
             ELSE [ok |-> TRUE, output |-> Upper(joined), error |-> "", msg |-> ""]


(***************************************************************************)
(* json.dumps / json.loads and calculate_payload_hash                      *)
(***************************************************************************)
\* the escape json.dumps (ensure_ascii) writes for one character
JsonEscapeChar(c) ==
    CASE c = "\"" -> <<"\\", "\"">>
      [] c = "\\" -> <<"\\", "\\">>
      [] c = "TAB" -> <<"\\", "t">>
      [] c = "LF" -> <<"\\", "n">>
      [] c = "CR" -> <<"\\", "r">>
      [] c = "FF" -> <<"\\", "f">>
      [] c = "VT" -> <<"\\", "u", "0", "0", "0", "b">>
      [] c = "SZ" -> <<"\\", "u", "0", "0", "d", "f">>
      [] OTHER -> <<c>>

RECURSIVE JsonEscape(_)
JsonEscape(s) ==
    IF s = <<>> THEN <<>> ELSE JsonEscapeChar(Head(s)) \o JsonEscape(Tail(s))

\* the characters written between the quotes as they are
JsonStr_Raw(s) == <<"\"">> \o s \o <<"\"">>

\* a str as a JSON string literal
JsonStr(s) == <<"\"">> \o JsonEscape(s) \o <<"\"">>

\* a list of str as a JSON array, items separated by ", "
JsonList(l) ==
    <<"[">> \o Join(<<",", " ">>, [i \in 1..Len(l) |-> JsonStr(l[i])]) \o <<"]">>

KeyList1 == <<"l", "i", "s", "t", "_", "1">>
KeyList2 == <<"l", "i", "s", "t", "_", "2">>
KeyOutput == <<"o", "u", "t", "p", "u", "t">>

\* json.dumps(payload.dict()): the fields in declaration order, list_1 then
\* list_2, which is also their sorted order (sort_keys=True)
JsonDumpsPayload(payload) ==
    <<"{">> \o JsonStr(KeyList1) \o <<":", " ">> \o JsonList(payload.list_1)
            \o <<",", " ">>
            \o JsonStr(KeyList2) \o <<":", " ">> \o JsonList(payload.list_2)
            \o <<"}">>

\* json.dumps(response.dict()) of a GetCacheResponse
JsonDumpsResponse(response) ==
    <<"{">> \o JsonStr(KeyOutput) \o <<":", " ">> \o JsonStr(response.output) \o <<"}">>

RECURSIVE JsonUnescape(_)
\* the characters of a JSON string literal's inside, escapes decoded
JsonUnescape(s) ==
    IF s = <<>> THEN <<>>
    ELSE IF Head(s) # "\\" THEN <<Head(s)>> \o JsonUnescape(Tail(s))
    ELSE IF s[2] = "u"
         THEN <<(IF SubSeq(s, 3, 6) = <<"0", "0", "0", "b">> THEN "VT" ELSE "SZ")>>
                 \o JsonUnescape(SubSeq(s, 7, Len(s)))
    ELSE <<(CASE s[2] = "t" -> "TAB"
              [] s[2] = "n" -> "LF"
              [] s[2] = "r" -> "CR"
              [] s[2] = "f" -> "FF"
              [] OTHER -> s[2])>> \o JsonUnescape(SubSeq(s, 3, Len(s)))

\* json.loads of a stored output_payload, the text taken whole for the output
JsonLoadsResponse_Whole(text) == [output |-> text]

\* json.loads of a stored output_payload: the dict {"output": <str>}
JsonLoadsResponse(text) ==
    LET prefix == Len(<<"{">> \o JsonStr(KeyOutput) \o <<":", " ", "\"">>)
    IN  [output |-> JsonUnescape(SubSeq(text, prefix + 1, Len(text) - 2))]

\* hashlib.sha256(...).hexdigest(): a digest is identified with the text
\* digested, i.e. the digest is taken to be collision-free
Sha256(text) == <<"sha256", text>>

\* the digest taken of the normalized lists instead of the lists received
calculate_payload_hash_Normalized(payload) ==
    Sha256(JsonDumpsPayload(
        [list_1 |-> [i \in 1..Len(payload.list_1) |->
                        Upper(CollapseWhitespace(payload.list_1[i]))],
         list_2 |-> [i \in 1..Len(payload.list_2) |->
                        Upper(CollapseWhitespace(payload.list_2[i]))]]))

\* hashlib.sha256(json.dumps(payload.dict(), sort_keys=True).encode()).hexdigest()
calculate_payload_hash(payload) == Sha256(JsonDumpsPayload(payload))

(***************************************************************************)
(* The requests of the model.  PayloadA and PayloadB differ in white space *)
(* only, so their outputs are equal; PayloadEmpty has two empty lists and  *)
(* another output; PayloadLong passes the request model (two lists of str  *)
(* of equal length) and is rejected by the transformer; PayloadMismatch    *)
(* does not pass the request model.                                        *)
(***************************************************************************)
PayloadA == [list_1 |-> << <<"a">> >>, list_2 |-> << <<"b">> >>]
PayloadB == [list_1 |-> << <<"a", " ">> >>, list_2 |-> << <<"b">> >>]
\* PayloadA with its first element in upper case
PayloadUpper == [list_1 |-> << <<"A">> >>, list_2 |-> << <<"b">> >>]
PayloadEmpty == [list_1 |-> <<>>, list_2 |-> <<>>]
PayloadLong == [list_1 |-> << <<"a", "a", "a", "a", "a">> >>, list_2 |-> << <<"b">> >>]

PayloadMismatch == [list_1 |-> << <<"a">>, <<"b">> >>, list_2 |-> << <<"c">> >>]

\* the bodies that pass the request model, and all bodies sent
Payloads == {PayloadA, PayloadB, PayloadEmpty, PayloadLong}
Bodies == Payloads \cup {PayloadMismatch}

\* the request model without its validator
check_lists_length_Off(body) == TRUE

\* CreateCachePayloadRequest.check_lists_length: TRUE when the body passes
check_lists_length(body) == Len(body.list_1) = Len(body.list_2)
NoPayload == [list_1 |-> <<>>, list_2 |-> <<>>]

\* the identifiers a GET may ask for
Ids == {calculate_payload_hash(p) : p \in Payloads}

Req == 1..NReq

VARIABLES
    REDIS_CACHED_IDS,    \* set of payload ids (routers/caches.py)
    REDIS_OUTPUT_CACHE,  \* payload id -> GetCacheResponse (routers/caches.py)
    CACHE_LOCK,          \* the request holding _CACHE_LOCK, 0 when free
    cache_payloads,      \* the rows of the table, in insertion order
    req,                 \* per request: position, arguments, response, history
    epoch,               \* number of restarts of the process so far
    unit                 \* a direct call of one function: name, argument, result

vars == <<REDIS_CACHED_IDS, REDIS_OUTPUT_CACHE, CACHE_LOCK, cache_payloads, req, epoch,
          unit>>

(***************************************************************************)
(* Responses and exceptions                                                *)
(***************************************************************************)
NoResponse == [status |-> 0, payload_id |-> <<>>, output |-> <<>>, message |-> <<>>]

\* CreateCachePayloadResponse(payload_id=...), sent with the route's status 200
CreateCachePayloadResponse(payload_id) ==
    [status |-> 200, payload_id |-> payload_id, output |-> <<>>, message |-> <<>>]

\* GetCacheResponse(output=...), sent with the route's status 200
GetCacheResponse(output) ==
    [status |-> 200, payload_id |-> <<>>, output |-> output, message |-> <<>>]

\* HTTPException(status_code, detail={"message": message})
HTTPError(status, message) ==
    [status |-> status, payload_id |-> <<>>, output |-> <<>>, message |-> message]

\* f"Payload ID {payload_id} not found in cache."
NotFoundMessage(payload_id) == <<"Payload ID ", payload_id, " not found in cache.">>

\* exception_handler without its first except clause: an HTTPException is
\* caught by the last one
exception_handler_NoHTTPClause(exc) ==
    CASE exc.type = "ValidationError" -> HTTPError(422, exc.detail)
      [] exc.type = "ValueError" -> HTTPError(400, exc.detail)
      [] OTHER -> HTTPError(500, <<"Internal Server Error">>)

\* exception_handler whose last clause answers with str(error)
exception_handler_Leaky(exc) ==
    CASE exc.type = "HTTPException" -> HTTPError(exc.status, exc.detail)
      [] exc.type = "ValidationError" -> HTTPError(422, exc.detail)
      [] exc.type = "ValueError" -> HTTPError(400, exc.detail)
      [] OTHER -> HTTPError(500, exc.detail)

\* exception_handler: the HTTPException a raised exception leaves as.
\* exc is [type, status, detail]
exception_handler(exc) ==
    CASE exc.type = "HTTPException" -> HTTPError(exc.status, exc.detail)
      [] exc.type = "ValidationError" -> HTTPError(422, exc.detail)
      [] exc.type = "ValueError" -> HTTPError(400, exc.detail)
      [] OTHER -> HTTPError(500, <<"Internal Server Error">>)

(***************************************************************************)
(* The store: table cache_payloads                                         *)
(***************************************************************************)
\* the query finding no row, whatever the table holds
QueryByPayloadId_Nothing(payload_id) == <<>>

\* the query without its filter
QueryByPayloadId_Unfiltered(payload_id) == cache_payloads

\* query(cache_payloads).filter_by(payload_id=...) ... fetchone(): the rows
\* found, of which fetchone() takes the first
QueryByPayloadId(payload_id) ==
    SelectSeq(cache_payloads, LAMBDA row : row.payload_id = payload_id)

\* the column without unique=True
UniqueViolation_Off(payload_id) == FALSE

\* the unique index on payload_id rejects a second row with the same value
UniqueViolation(payload_id) ==
    \E i \in 1..Len(cache_payloads) : cache_payloads[i].payload_id = payload_id

\* cache_payloads(payload_id=..., input_payload=..., output_payload=...)
NewRow(payload_id, payload, response) ==
    [id |-> Len(cache_payloads) + 1,
     payload_id |-> payload_id,
     input_payload |-> JsonDumpsPayload(payload),
     output_payload |-> JsonDumpsResponse(response)]

(***************************************************************************)
(* Initial state: the module has just been imported, the table is empty.   *)
(***************************************************************************)
NewRequest ==
    [pc |-> "idle", kind |-> "none", payload |-> NoPayload, payload_id |-> <<>>,
     response |-> NoResponse,
     \* history of the request, read by the properties only
     born |-> 0,          \* epoch in which the request arrived
     hit |-> FALSE,       \* the decorator found the id in its registry
     ctrl |-> 0,          \* calls of CacheController.create / get
     reads |-> 0,         \* store reads
     writes |-> 0,        \* store inserts attempted
     wrote |-> "none",    \* how the insert ended: committed, conflict, error
     found |-> "none",    \* what the store read found: row, nothing
     xform |-> 0,         \* calls of TransformerApp.transform
     parsed |-> <<>>,     \* the output held in parsed_response
     created |-> FALSE,   \* a POST had returned this id when the request arrived
     stored |-> FALSE,    \* the table held a row of this id when the request arrived
     mapped |-> FALSE]    \* REDIS_OUTPUT_CACHE held this id when the request arrived

\* no function is called on its own while the service runs
NoCall == [fn |-> "none", arg |-> <<>>, result |-> <<>>, done |-> FALSE]

Init ==
    /\ REDIS_CACHED_IDS = {}
    /\ REDIS_OUTPUT_CACHE = <<>>
    /\ CACHE_LOCK = 0
    /\ cache_payloads = <<>>
    /\ req = [r \in Req |-> NewRequest]
    /\ epoch = 0
    /\ unit = NoCall

\* a POST of this id has returned 200 to its caller
CreateReturned(payload_id) ==
    \E q \in Req : /\ req[q].kind = "create"
                   /\ req[q].pc = "done"
                   /\ req[q].payload_id = payload_id
                   /\ req[q].response.status = 200

\* the table holds a row of this payload id
StoreHolds(payload_id) ==
    \E i \in 1..Len(cache_payloads) : cache_payloads[i].payload_id = payload_id

\* requests arrive in the order of their numbers
MayArrive(r) == req[r].pc = "idle" /\ (IF r = 1 THEN TRUE ELSE req[r - 1].pc # "idle")

(***************************************************************************)
(* POST /payload: check_redis_cache.wrapper around create_payload          *)
(***************************************************************************)
\* payload_id in REDIS_CACHED_IDS
InCachedIds(payload_id) == payload_id \in REDIS_CACHED_IDS

\* the identifier taken from a digest salted per process, as the built-in
\* hash() of a str is
PostArrive_Salted(r, payload) ==
    /\ MayArrive(r)
    /\ check_lists_length(payload)
    /\ LET salt == IF epoch = 0 THEN <<"salt0">> ELSE <<"salt1">>
           payload_id == Sha256(JsonDumpsPayload(payload) \o salt)
       IN  req' = [req EXCEPT ![r] =
                     [@ EXCEPT !.pc = "post_lock", !.kind = "create",
                               !.payload = payload, !.payload_id = payload_id,
                               !.born = epoch,
                               !.created = CreateReturned(payload_id),
                               !.stored = StoreHolds(payload_id)]]
    /\ UNCHANGED <<REDIS_CACHED_IDS, REDIS_OUTPUT_CACHE, CACHE_LOCK, cache_payloads, epoch>>

\* the request arrives; payload_id = calculate_payload_hash(payload)
PostArrive(r, payload) ==
    /\ MayArrive(r)
    /\ check_lists_length(payload)
    /\ req' = [req EXCEPT ![r] =
                 [@ EXCEPT !.pc = "post_lock", !.kind = "create", !.payload = payload,
                           !.payload_id = calculate_payload_hash(payload),
                           !.born = epoch,
                           !.created = CreateReturned(calculate_payload_hash(payload)),
                           !.stored = StoreHolds(calculate_payload_hash(payload))]]
    /\ UNCHANGED <<REDIS_CACHED_IDS, REDIS_OUTPUT_CACHE, CACHE_LOCK, cache_payloads, epoch>>

\* the body fails the request model: FastAPI answers 422 and calls neither
\* the decorator nor the handler
PostRejected(r, body) ==
    /\ MayArrive(r)
    /\ ~check_lists_length(body)
    /\ req' = [req EXCEPT ![r] =
                 [@ EXCEPT !.pc = "done", !.kind = "create", !.payload = body,
                           !.born = epoch,
                           !.response = HTTPError(422,
                               <<"list_1 and list_2 must be of the same length">>)]]
    /\ UNCHANGED <<REDIS_CACHED_IDS, REDIS_OUTPUT_CACHE, CACHE_LOCK, cache_payloads, epoch>>

\* the block entered without waiting for the lock to be free
PostLock_NoWait(r) ==
    /\ req[r].pc = "post_lock"
    /\ CACHE_LOCK' = r
    /\ req' = [req EXCEPT ![r].pc = "post_check"]
    /\ UNCHANGED <<REDIS_CACHED_IDS, REDIS_OUTPUT_CACHE, cache_payloads, epoch>>

\* with _CACHE_LOCK: (first time)
PostLock(r) ==
    /\ req[r].pc = "post_lock"
    /\ CACHE_LOCK = 0
    /\ CACHE_LOCK' = r
    /\ req' = [req EXCEPT ![r].pc = "post_check"]
    /\ UNCHANGED <<REDIS_CACHED_IDS, REDIS_OUTPUT_CACHE, cache_payloads, epoch>>

\* the decorator without the return of its hit branch
PostCheck_NoReturn(r) ==
    /\ req[r].pc = "post_check"
    /\ CACHE_LOCK = r
    /\ CACHE_LOCK' = 0
    /\ req' = [req EXCEPT ![r] =
                 [@ EXCEPT !.pc = "ctrl_lookup",
                           !.hit = (req[r].payload_id \in REDIS_CACHED_IDS)]]
    /\ UNCHANGED <<REDIS_CACHED_IDS, REDIS_OUTPUT_CACHE, cache_payloads, epoch>>

\* the handler called inside the with block: the lock is kept on a miss
PostCheck_HoldLock(r) ==
    /\ req[r].pc = "post_check"
    /\ CACHE_LOCK = r
    /\ IF InCachedIds(req[r].payload_id)
       THEN /\ CACHE_LOCK' = 0
            /\ req' = [req EXCEPT ![r] =
                         [@ EXCEPT !.pc = "done", !.hit = TRUE,
                                   !.response =
                                       CreateCachePayloadResponse(req[r].payload_id)]]
       ELSE /\ UNCHANGED CACHE_LOCK
            /\ req' = [req EXCEPT ![r].pc = "ctrl_lookup"]
    /\ UNCHANGED <<REDIS_CACHED_IDS, REDIS_OUTPUT_CACHE, cache_payloads, epoch>>

\* if payload_id in REDIS_CACHED_IDS: return the id; the lock is released
PostCheck(r) ==
    /\ req[r].pc = "post_check"
    /\ CACHE_LOCK = r
    /\ CACHE_LOCK' = 0
    /\ IF InCachedIds(req[r].payload_id)
       THEN req' = [req EXCEPT ![r] =
                      [@ EXCEPT !.pc = "done", !.hit = TRUE,
                                !.response = CreateCachePayloadResponse(req[r].payload_id)]]
       ELSE req' = [req EXCEPT ![r].pc = "ctrl_lookup"]
    /\ UNCHANGED <<REDIS_CACHED_IDS, REDIS_OUTPUT_CACHE, cache_payloads, epoch>>

\* create going to the transformer without a look at the table
CtrlLookup_RegistryOnly(r) ==
    /\ req[r].pc = "ctrl_lookup"
    /\ req' = [req EXCEPT ![r] =
                 [@ EXCEPT !.pc = "ctrl_transform", !.ctrl = @ + 1]]
    /\ UNCHANGED <<REDIS_CACHED_IDS, REDIS_OUTPUT_CACHE, CACHE_LOCK, cache_payloads, epoch>>

\* CacheController.create, to the return on a row found:
\* _get_cached_response_id reads the store
CtrlLookup(r) ==
    /\ req[r].pc = "ctrl_lookup"
    /\ LET rows == QueryByPayloadId(req[r].payload_id)
       IN  IF rows # <<>>
           THEN req' = [req EXCEPT ![r] =
                          [@ EXCEPT !.pc = "post_lock2", !.ctrl = @ + 1, !.reads = @ + 1,
                                    !.found = "row",
                                    !.response =
                                        CreateCachePayloadResponse(rows[1].payload_id)]]
           ELSE req' = [req EXCEPT ![r] =
                          [@ EXCEPT !.pc = "ctrl_transform", !.ctrl = @ + 1,
                                    !.reads = @ + 1, !.found = "nothing"]]
    /\ UNCHANGED <<REDIS_CACHED_IDS, REDIS_OUTPUT_CACHE, CACHE_LOCK, cache_payloads, epoch>>

\* create going on to the insert whatever the transformer answered
CtrlTransform_Unchecked(r) ==
    /\ req[r].pc = "ctrl_transform"
    /\ req' = [req EXCEPT ![r] =
                 [@ EXCEPT !.pc = "ctrl_write", !.xform = @ + 1,
                           !.parsed = Transform(req[r].payload).output]]
    /\ UNCHANGED <<REDIS_CACHED_IDS, REDIS_OUTPUT_CACHE, CACHE_LOCK, cache_payloads, epoch>>

\* a transformer that normalizes the elements in the lists it is given
CtrlTransform_InPlace(r) ==
    /\ req[r].pc = "ctrl_transform"
    /\ LET result == Transform(req[r].payload)
           normalized(l) == [i \in 1..Len(l) |-> CollapseWhitespace(l[i])]
       IN  IF result.ok
           THEN req' = [req EXCEPT ![r] =
                          [@ EXCEPT !.pc = "ctrl_write", !.xform = @ + 1,
                                    !.parsed = result.output,
                                    !.payload =
                                        [list_1 |-> normalized(req[r].payload.list_1),
                                         list_2 |-> normalized(req[r].payload.list_2)]]]
           ELSE req' = [req EXCEPT ![r] =
                          [@ EXCEPT !.pc = "done", !.xform = @ + 1,
                                    !.response = HTTPError(400, <<result.msg>>)]]
    /\ UNCHANGED <<REDIS_CACHED_IDS, REDIS_OUTPUT_CACHE, CACHE_LOCK, cache_payloads, epoch>>

\* response = TransformerApp().transform(payload=payload); a ValueError
\* leaves through exception_handler and the decorator
CtrlTransform(r) ==
    /\ req[r].pc = "ctrl_transform"
    /\ LET result == Transform(req[r].payload)
       IN  IF result.ok
           THEN req' = [req EXCEPT ![r] =
                          [@ EXCEPT !.pc = "ctrl_write", !.xform = @ + 1,
                                    !.parsed = result.output]]
           ELSE req' = [req EXCEPT ![r] =
                          [@ EXCEPT !.pc = "done", !.xform = @ + 1,
                                    !.response = exception_handler(
                                        [type |-> "ValueError", status |-> 0,
                                         detail |-> <<result.msg>>])]]
    /\ UNCHANGED <<REDIS_CACHED_IDS, REDIS_OUTPUT_CACHE, CACHE_LOCK, cache_payloads, epoch>>

\* an insert that replaces the row of the same payload id (REPLACE INTO)
\* instead of being rejected by the unique index
CtrlWrite_Replace(r) ==
    /\ req[r].pc = "ctrl_write"
    /\ cache_payloads' =
          Append(SelectSeq(cache_payloads,
                           LAMBDA row : row.payload_id # req[r].payload_id),
                 [id |-> Len(cache_payloads) + 1,
                  payload_id |-> req[r].payload_id,
                  input_payload |-> JsonDumpsPayload(req[r].payload),
                  output_payload |-> JsonDumpsResponse([output |-> req[r].parsed])])
    /\ req' = [req EXCEPT ![r] =
                 [@ EXCEPT !.pc = "post_lock2", !.writes = @ + 1,
                           !.wrote = "committed",
                           !.response = CreateCachePayloadResponse(req[r].payload_id)]]
    /\ UNCHANGED <<REDIS_CACHED_IDS, REDIS_OUTPUT_CACHE, CACHE_LOCK, epoch>>

\* what the database driver reports when an insert fails, "none" when it
\* does not fail
Faults == {"none", "server closed the connection unexpectedly",
           "could not serialize access due to concurrent update"}

\* _cache_parsed_response without db_session.rollback(): the row of a
\* failed insert stays in the table
CtrlWrite_NoRollback(r) ==
    /\ req[r].pc = "ctrl_write"
    /\ \E fault \in Faults :
         IF fault # "none"
         THEN /\ cache_payloads' =
                    Append(cache_payloads,
                           [id |-> Len(cache_payloads) + 1,
                            payload_id |-> req[r].payload_id,
                            input_payload |-> JsonDumpsPayload(req[r].payload),
                            output_payload |->
                                JsonDumpsResponse([output |-> req[r].parsed])])
              /\ req' = [req EXCEPT ![r] =
                           [@ EXCEPT !.pc = "done", !.writes = @ + 1, !.wrote = "error",
                                     !.response = HTTPError(500,
                                         <<"Internal Server Error">>)]]
         ELSE IF \E i \in 1..Len(cache_payloads) :
                     cache_payloads[i].payload_id = req[r].payload_id
         THEN /\ req' = [req EXCEPT ![r] =
                           [@ EXCEPT !.pc = "done", !.writes = @ + 1, !.wrote = "conflict",
                                     !.response = HTTPError(500,
                                         <<"Internal Server Error">>)]]
              /\ UNCHANGED cache_payloads
         ELSE /\ cache_payloads' =
                    Append(cache_payloads,
                           [id |-> Len(cache_payloads) + 1,
                            payload_id |-> req[r].payload_id,
                            input_payload |-> JsonDumpsPayload(req[r].payload),
                            output_payload |->
                                JsonDumpsResponse([output |-> req[r].parsed])])
              /\ req' = [req EXCEPT ![r] =
                           [@ EXCEPT !.pc = "post_lock2", !.writes = @ + 1,
                                     !.wrote = "committed",
                                     !.response =
                                         CreateCachePayloadResponse(req[r].payload_id)]]
    /\ UNCHANGED <<REDIS_CACHED_IDS, REDIS_OUTPUT_CACHE, CACHE_LOCK, epoch>>

\* _cache_parsed_response without the raise of its except clause: a failed
\* insert is rolled back and the payload id returned
CtrlWrite_Swallow(r) ==
    /\ req[r].pc = "ctrl_write"
    /\ \E fault \in BOOLEAN :
         IF fault \/ (\E i \in 1..Len(cache_payloads) :
                         cache_payloads[i].payload_id = req[r].payload_id)
         THEN /\ req' = [req EXCEPT ![r] =
                           [@ EXCEPT !.pc = "post_lock2", !.writes = @ + 1,
                                     !.wrote = IF fault THEN "error" ELSE "conflict",
                                     !.response =
                                         CreateCachePayloadResponse(req[r].payload_id)]]
              /\ UNCHANGED cache_payloads
         ELSE /\ cache_payloads' =
                    Append(cache_payloads,
                           [id |-> Len(cache_payloads) + 1,
                            payload_id |-> req[r].payload_id,
                            input_payload |-> JsonDumpsPayload(req[r].payload),
                            output_payload |->
                                JsonDumpsResponse([output |-> req[r].parsed])])
              /\ req' = [req EXCEPT ![r] =
                           [@ EXCEPT !.pc = "post_lock2", !.writes = @ + 1,
                                     !.wrote = "committed",
                                     !.response =
                                         CreateCachePayloadResponse(req[r].payload_id)]]
    /\ UNCHANGED <<REDIS_CACHED_IDS, REDIS_OUTPUT_CACHE, CACHE_LOCK, epoch>>

\* _cache_parsed_response: add, flush, commit.  The insert fails when the
\* database fails (fault) or when the unique index rejects the row; both are
\* rolled back and re-raised, and leave through exception_handler
CtrlWrite(r) ==
    /\ req[r].pc = "ctrl_write"
    /\ \E fault \in Faults :
         IF fault # "none"
         THEN /\ req' = [req EXCEPT ![r] =
                           [@ EXCEPT !.pc = "done", !.writes = @ + 1, !.wrote = "error",
                                     !.response = exception_handler(
                                         [type |-> "OperationalError", status |-> 0,
                                          detail |-> <<fault>>])]]
              /\ UNCHANGED cache_payloads
         ELSE IF UniqueViolation(req[r].payload_id)
         THEN /\ req' = [req EXCEPT ![r] =
                           [@ EXCEPT !.pc = "done", !.writes = @ + 1, !.wrote = "conflict",
                                     !.response = exception_handler(
                                         [type |-> "IntegrityError", status |-> 0,
                                          detail |-> <<"duplicate key">>])]]
              /\ UNCHANGED cache_payloads
         ELSE /\ cache_payloads' =
                    Append(cache_payloads,
                           NewRow(req[r].payload_id, req[r].payload,
                                  GetCacheResponse(req[r].parsed)))
              /\ req' = [req EXCEPT ![r] =
                           [@ EXCEPT !.pc = "post_lock2", !.writes = @ + 1,
                                     !.wrote = "committed",
                                     !.response =
                                         CreateCachePayloadResponse(req[r].payload_id)]]
    /\ UNCHANGED <<REDIS_CACHED_IDS, REDIS_OUTPUT_CACHE, CACHE_LOCK, epoch>>

\* if response_payload_id: with _CACHE_LOCK: (second time)
PostLock2(r) ==
    /\ req[r].pc = "post_lock2"
    /\ CACHE_LOCK = 0
    /\ CACHE_LOCK' = r
    /\ req' = [req EXCEPT ![r].pc = "post_add"]
    /\ UNCHANGED <<REDIS_CACHED_IDS, REDIS_OUTPUT_CACHE, cache_payloads, epoch>>

\* the decorator writing the new output through to REDIS_OUTPUT_CACHE
PostAdd_WriteThrough(r) ==
    /\ req[r].pc = "post_add"
    /\ CACHE_LOCK = r
    /\ CACHE_LOCK' = 0
    /\ REDIS_CACHED_IDS' = REDIS_CACHED_IDS \cup {req[r].response.payload_id}
    /\ REDIS_OUTPUT_CACHE' =
          [i \in DOMAIN REDIS_OUTPUT_CACHE \cup {req[r].payload_id} |->
              IF i = req[r].payload_id
              THEN GetCacheResponse(Transform(req[r].payload).output)
              ELSE REDIS_OUTPUT_CACHE[i]]
    /\ req' = [req EXCEPT ![r].pc = "done"]
    /\ UNCHANGED <<cache_payloads, epoch>>

\* the decorator putting the new identifier in place of the registry
PostAdd_Replace(r) ==
    /\ req[r].pc = "post_add"
    /\ CACHE_LOCK = r
    /\ CACHE_LOCK' = 0
    /\ REDIS_CACHED_IDS' = {req[r].response.payload_id}
    /\ req' = [req EXCEPT ![r].pc = "done"]
    /\ UNCHANGED <<REDIS_OUTPUT_CACHE, cache_payloads, epoch>>

\* the decorator returning without remembering the id
PostAdd_Skip(r) ==
    /\ req[r].pc = "post_add"
    /\ CACHE_LOCK = r
    /\ CACHE_LOCK' = 0
    /\ req' = [req EXCEPT ![r].pc = "done"]
    /\ UNCHANGED <<REDIS_CACHED_IDS, REDIS_OUTPUT_CACHE, cache_payloads, epoch>>

\* REDIS_CACHED_IDS.add(response_payload_id); return response
PostAdd(r) ==
    /\ req[r].pc = "post_add"
    /\ CACHE_LOCK = r
    /\ CACHE_LOCK' = 0
    /\ REDIS_CACHED_IDS' = REDIS_CACHED_IDS \cup {req[r].response.payload_id}
    /\ req' = [req EXCEPT ![r].pc = "done"]
    /\ UNCHANGED <<REDIS_OUTPUT_CACHE, cache_payloads, epoch>>

(***************************************************************************)
(* GET /payload/{id}: cache_read_through.wrapper around read_payload       *)
(***************************************************************************)
\* the request arrives with the id of its path
GetArrive(r, payload_id) ==
    /\ MayArrive(r)
    /\ req' = [req EXCEPT ![r] =
                 [@ EXCEPT !.pc = "get_lock", !.kind = "read", !.payload_id = payload_id,
                           !.born = epoch, !.created = CreateReturned(payload_id),
                           !.stored = StoreHolds(payload_id),
                           !.mapped = (payload_id \in DOMAIN REDIS_OUTPUT_CACHE)]]
    /\ UNCHANGED <<REDIS_CACHED_IDS, REDIS_OUTPUT_CACHE, CACHE_LOCK, cache_payloads, epoch>>

\* with _CACHE_LOCK: (first time)
GetLock(r) ==
    /\ req[r].pc = "get_lock"
    /\ CACHE_LOCK = 0
    /\ CACHE_LOCK' = r
    /\ req' = [req EXCEPT ![r].pc = "get_check"]
    /\ UNCHANGED <<REDIS_CACHED_IDS, REDIS_OUTPUT_CACHE, cache_payloads, epoch>>

\* the decorator without the return of its hit branch
GetCheck_NoReturn(r) ==
    /\ req[r].pc = "get_check"
    /\ CACHE_LOCK = r
    /\ CACHE_LOCK' = 0
    /\ req' = [req EXCEPT ![r] =
                 [@ EXCEPT !.pc = "ctrl_get",
                           !.hit = (req[r].payload_id \in DOMAIN REDIS_OUTPUT_CACHE)]]
    /\ UNCHANGED <<REDIS_CACHED_IDS, REDIS_OUTPUT_CACHE, cache_payloads, epoch>>

\* the decorator returning from its hit branch with the lock still held
GetCheck_HoldOnHit(r) ==
    /\ req[r].pc = "get_check"
    /\ CACHE_LOCK = r
    /\ IF req[r].payload_id \in DOMAIN REDIS_OUTPUT_CACHE
       THEN /\ req' = [req EXCEPT ![r] =
                         [@ EXCEPT !.pc = "done", !.hit = TRUE,
                                   !.response = REDIS_OUTPUT_CACHE[req[r].payload_id]]]
            /\ UNCHANGED CACHE_LOCK
       ELSE /\ req' = [req EXCEPT ![r].pc = "ctrl_get"]
            /\ CACHE_LOCK' = 0
    /\ UNCHANGED <<REDIS_CACHED_IDS, REDIS_OUTPUT_CACHE, cache_payloads, epoch>>

\* cached = REDIS_OUTPUT_CACHE.get(payload_id); if cached is not None: return it
GetCheck(r) ==
    /\ req[r].pc = "get_check"
    /\ CACHE_LOCK = r
    /\ CACHE_LOCK' = 0
    /\ IF req[r].payload_id \in DOMAIN REDIS_OUTPUT_CACHE
       THEN req' = [req EXCEPT ![r] =
                      [@ EXCEPT !.pc = "done", !.hit = TRUE,
                                !.response = REDIS_OUTPUT_CACHE[req[r].payload_id]]]
       ELSE req' = [req EXCEPT ![r].pc = "ctrl_get"]
    /\ UNCHANGED <<REDIS_CACHED_IDS, REDIS_OUTPUT_CACHE, cache_payloads, epoch>>

\* a GET that remembers a missing identifier: the not-found response is put
\* into REDIS_OUTPUT_CACHE
CtrlGet_NegativeCache(r) ==
    /\ req[r].pc = "ctrl_get"
    /\ LET rows == QueryByPayloadId(req[r].payload_id)
           missing == exception_handler(
                          [type |-> "HTTPException", status |-> 404,
                           detail |-> NotFoundMessage(req[r].payload_id)])
       IN  IF rows = <<>>
           THEN /\ req' = [req EXCEPT ![r] =
                             [@ EXCEPT !.pc = "done", !.ctrl = @ + 1, !.reads = @ + 1,
                                       !.found = "nothing", !.response = missing]]
                /\ REDIS_OUTPUT_CACHE' =
                      [i \in DOMAIN REDIS_OUTPUT_CACHE \cup {req[r].payload_id} |->
                          IF i = req[r].payload_id THEN missing
                          ELSE REDIS_OUTPUT_CACHE[i]]
           ELSE /\ req' = [req EXCEPT ![r] =
                             [@ EXCEPT !.pc = "get_lock2", !.ctrl = @ + 1, !.reads = @ + 1,
                                       !.found = "row",
                                       !.response = GetCacheResponse(
                                           JsonLoadsResponse(rows[1].output_payload).output)]]
                /\ UNCHANGED REDIS_OUTPUT_CACHE
    /\ UNCHANGED <<REDIS_CACHED_IDS, CACHE_LOCK, cache_payloads, epoch>>

\* CacheController.get taking a row with an empty output for no row
CtrlGet_EmptyIsMissing(r) ==
    /\ req[r].pc = "ctrl_get"
    /\ LET rows == QueryByPayloadId(req[r].payload_id)
       IN  IF rows = <<>> \/ JsonLoadsResponse(rows[1].output_payload).output = <<>>
           THEN req' = [req EXCEPT ![r] =
                          [@ EXCEPT !.pc = "done", !.ctrl = @ + 1, !.reads = @ + 1,
                                    !.found = "nothing",
                                    !.response = HTTPError(404,
                                        NotFoundMessage(req[r].payload_id))]]
           ELSE req' = [req EXCEPT ![r] =
                          [@ EXCEPT !.pc = "get_lock2", !.ctrl = @ + 1, !.reads = @ + 1,
                                    !.found = "row",
                                    !.response = GetCacheResponse(
                                        JsonLoadsResponse(rows[1].output_payload).output)]]
    /\ UNCHANGED <<REDIS_CACHED_IDS, REDIS_OUTPUT_CACHE, CACHE_LOCK, cache_payloads, epoch>>

\* CacheController.get: the row's output, or HTTPException 404
CtrlGet(r) ==
    /\ req[r].pc = "ctrl_get"
    /\ LET rows == QueryByPayloadId(req[r].payload_id)
       IN  IF rows = <<>>
           THEN req' = [req EXCEPT ![r] =
                          [@ EXCEPT !.pc = "done", !.ctrl = @ + 1, !.reads = @ + 1,
                                    !.found = "nothing",
                                    !.response = exception_handler(
                                        [type |-> "HTTPException", status |-> 404,
                                         detail |-> NotFoundMessage(req[r].payload_id)])]]
           ELSE req' = [req EXCEPT ![r] =
                          [@ EXCEPT !.pc = "get_lock2", !.ctrl = @ + 1, !.reads = @ + 1,
                                    !.found = "row",
                                    !.response = GetCacheResponse(
                                        JsonLoadsResponse(rows[1].output_payload).output)]]
    /\ UNCHANGED <<REDIS_CACHED_IDS, REDIS_OUTPUT_CACHE, CACHE_LOCK, cache_payloads, epoch>>

\* if isinstance(response, GetCacheResponse): with _CACHE_LOCK: (second time)
GetLock2(r) ==
    /\ req[r].pc = "get_lock2"
    /\ CACHE_LOCK = 0
    /\ CACHE_LOCK' = r
    /\ req' = [req EXCEPT ![r].pc = "get_put"]
    /\ UNCHANGED <<REDIS_CACHED_IDS, REDIS_OUTPUT_CACHE, cache_payloads, epoch>>

\* the decorator returning the response without keeping it
GetPut_Skip(r) ==
    /\ req[r].pc = "get_put"
    /\ CACHE_LOCK = r
    /\ CACHE_LOCK' = 0
    /\ req' = [req EXCEPT ![r].pc = "done"]
    /\ UNCHANGED <<REDIS_CACHED_IDS, REDIS_OUTPUT_CACHE, cache_payloads, epoch>>

\* REDIS_OUTPUT_CACHE[payload_id] = response; return response
GetPut(r) ==
    /\ req[r].pc = "get_put"
    /\ CACHE_LOCK = r
    /\ CACHE_LOCK' = 0
    /\ REDIS_OUTPUT_CACHE' =
          [i \in DOMAIN REDIS_OUTPUT_CACHE \cup {req[r].payload_id} |->
              IF i = req[r].payload_id THEN req[r].response ELSE REDIS_OUTPUT_CACHE[i]]
    /\ req' = [req EXCEPT ![r].pc = "done"]
    /\ UNCHANGED <<REDIS_CACHED_IDS, cache_payloads, epoch>>

(***************************************************************************)
(* The process restarts (no request in flight): the module is imported     *)
(* again, so both registries are empty and the lock is new; the table      *)
(* keeps its rows.                                                         *)
(***************************************************************************)
NoneInFlight == \A r \in Req : req[r].pc \in {"idle", "done"}

\* a start of the process that recreates the table empty
Restart_DropTable ==
    /\ NoneInFlight
    /\ epoch < MaxRestarts
    /\ epoch' = epoch + 1
    /\ REDIS_CACHED_IDS' = {}
    /\ REDIS_OUTPUT_CACHE' = <<>>
    /\ CACHE_LOCK' = 0
    /\ cache_payloads' = <<>>
    /\ UNCHANGED req

Restart ==
    /\ NoneInFlight
    /\ epoch < MaxRestarts
    /\ epoch' = epoch + 1
    /\ REDIS_CACHED_IDS' = {}
    /\ REDIS_OUTPUT_CACHE' = <<>>
    /\ CACHE_LOCK' = 0
    /\ UNCHANGED <<cache_payloads, req>>

Step(r) ==
    \/ PostLock(r)
    \/ PostCheck(r)
    \/ CtrlLookup(r)
    \/ CtrlTransform(r)
    \/ CtrlWrite(r)
    \/ PostLock2(r)
    \/ PostAdd(r)
    \/ GetLock(r)
    \/ GetCheck(r)
    \/ CtrlGet(r)
    \/ GetLock2(r)
    \/ GetPut(r)

Next ==
    /\ \/ \E r \in Req, payload \in Bodies : PostArrive(r, payload)
       \/ \E r \in Req, payload \in Bodies : PostRejected(r, payload)
       \/ \E r \in Req, payload_id \in Ids : GetArrive(r, payload_id)
       \/ \E r \in Req : Step(r)
       \/ Restart
    /\ UNCHANGED unit

\* requests served concurrently (FastAPI runs the handlers on a thread pool)
Spec == Init /\ [][Next]_vars

\* requests served one after another: one arrives when none is in flight
NextSeq ==
    /\ \/ \E r \in Req, payload \in Bodies : NoneInFlight /\ PostArrive(r, payload)
       \/ \E r \in Req, payload \in Bodies : NoneInFlight /\ PostRejected(r, payload)
       \/ \E r \in Req, payload_id \in Ids : NoneInFlight /\ GetArrive(r, payload_id)
       \/ \E r \in Req : Step(r)
       \/ Restart
    /\ UNCHANGED unit

SpecSeq == Init /\ [][NextSeq]_vars

(***************************************************************************)
(* The functions called on their own: the argument is drawn at the start,  *)
(* the call computes the result.                                           *)
(***************************************************************************)
\* list lengths run past MAX_ITEMS
MaxListLen == 3

\* list elements: a short one, one that normalizes to "b c" (exactly
\* MAX_ITEM_LENGTH characters), one above the per-item cap, one that is no
\* str, and a sharp s, whose upper-case form has two characters
ElemShort == <<"a">>
ElemSpaced == <<"TAB", "b", " ", " ", "c", " ">>
ElemLong == <<"a", "b", "c", "a", "b">>
ElemSharp == <<"SZ">>
Elems == {ElemShort, ElemSpaced, ElemLong, ElemSharp, NonStr}

\* the values a caller can pass as payload.list_1 / payload.list_2
ListValues ==
    UNION {[1..n -> Elems] : n \in 0..MaxListLen} \cup {NoneList, NotAList}

TransformInputs == [list_1 : ListValues, list_2 : ListValues]

\* the payloads whose identifier is computed: lists of up to HashListLen
\* strings, among them the empty string and one spelling a quote, a comma,
\* a space and a quote, the text json.dumps puts between two list items
HashListLen == 2
ElemEmpty == <<>>
ElemDouble == <<"a", "a">>
ElemQuoted == <<"a", "\"", ",", " ", "\"", "a">>
HashElems == {ElemEmpty, ElemShort, ElemDouble, ElemQuoted}
HashLists == UNION {[1..n -> HashElems] : n \in 0..HashListLen}
HashInputs == [list_1 : HashLists, list_2 : HashLists]

\* the strings that are normalized: up to MaxStrLen characters, letters and
\* each of the six whitespace characters
MaxStrLen == 3
StrChars == {"a", "b"} \cup Whitespace
CollapseInputs == UNION {[1..n -> StrChars] : n \in 0..MaxStrLen}

UnitCalls ==
    {[fn |-> "transform", arg |-> p, result |-> <<>>, done |-> FALSE] :
        p \in TransformInputs}
    \cup {[fn |-> "hash", arg |-> p, result |-> <<>>, done |-> FALSE] :
        p \in HashInputs}
    \cup {[fn |-> "collapse", arg |-> t, result |-> <<>>, done |-> FALSE] :
        t \in CollapseInputs}

InitUnit ==
    /\ REDIS_CACHED_IDS = {}
    /\ REDIS_OUTPUT_CACHE = <<>>
    /\ CACHE_LOCK = 0
    /\ cache_payloads = <<>>
    /\ req = [r \in Req |-> NewRequest]
    /\ epoch = 0
    /\ unit \in UnitCalls

\* TransformerApp().transform(payload=unit.arg)
CallTransform ==
    /\ unit.fn = "transform"
    /\ ~unit.done
    /\ unit' = [unit EXCEPT !.result = Transform(unit.arg), !.done = TRUE]
    /\ UNCHANGED <<REDIS_CACHED_IDS, REDIS_OUTPUT_CACHE, CACHE_LOCK, cache_payloads,
                   req, epoch>>

\* caching_utils.calculate_payload_hash(unit.arg)
CallHash ==
    /\ unit.fn = "hash"
    /\ ~unit.done
    /\ unit' = [unit EXCEPT !.result = calculate_payload_hash(unit.arg), !.done = TRUE]
    /\ UNCHANGED <<REDIS_CACHED_IDS, REDIS_OUTPUT_CACHE, CACHE_LOCK, cache_payloads,
                   req, epoch>>

\* TransformerApp()._collapse_whitespace(unit.arg)
CallCollapse ==
    /\ unit.fn = "collapse"
    /\ ~unit.done
    /\ unit' = [unit EXCEPT !.result = CollapseWhitespace(unit.arg), !.done = TRUE]
    /\ UNCHANGED <<REDIS_CACHED_IDS, REDIS_OUTPUT_CACHE, CACHE_LOCK, cache_payloads,
                   req, epoch>>

NextUnit ==
    \/ CallTransform
    \/ CallHash
    \/ CallCollapse

SpecUnit == InitUnit /\ [][NextUnit]_vars

(***************************************************************************)
(* Definitions shared by the properties                                    *)
(***************************************************************************)
\* the POST requests of a payload that have arrived
Creates(payload) == {r \in Req : req[r].kind = "create" /\ req[r].payload = payload}

RECURSIVE SumOver(_, _)
\* the sum of f[r] over the requests of set S
SumOver(S, f) ==
    IF S = {} THEN 0
    ELSE LET r == CHOOSE x \in S : TRUE IN f[r] + SumOver(S \ {r}, f)

\* how often the transformer has run for a payload
TransformerCalls(payload) == SumOver(Creates(payload), [r \in Req |-> req[r].xform])

\* how many inserts of a payload id were committed
CommittedWrites(payload_id) ==
    Cardinality({r \in Req : /\ req[r].kind = "create"
                             /\ req[r].payload_id = payload_id
                             /\ req[r].wrote = "committed"})

\* a POST of the payload ended in a failure of the database
StoreErrorFor(payload) == \E r \in Creates(payload) : req[r].wrote = "error"

Done(r) == req[r].pc = "done"

\* the request returned this identifier to its caller, without error
ReturnedId(r, payload_id) == Done(r) /\ req[r].response = CreateCachePayloadResponse(payload_id)

C2_ConflictIsHit ==
    \A r \in Req :
        (req[r].kind = "create" /\ Done(r) /\ req[r].wrote = "conflict") =>
            ReturnedId(r, req[r].payload_id)

(***************************************************************************)
(* C3: the table never holds two rows of one payload id, and once a POST   *)
(* of an accepted payload has ended otherwise than in a database failure,  *)
(* exactly one insert of its id has been committed.                        *)
(***************************************************************************)
C3_ExactlyOneWrite ==
    /\ \A payload_id \in Ids :
          /\ Len(QueryByPayloadId(payload_id)) <= 1
          /\ CommittedWrites(payload_id) <= 1
    /\ \A r \in Req :
          (req[r].kind = "create" /\ Done(r) /\ Transform(req[r].payload).ok
             /\ req[r].wrote # "error") =>
              /\ CommittedWrites(req[r].payload_id) = 1
              /\ Len(QueryByPayloadId(req[r].payload_id)) = 1

\* two POSTs of one payload both transformed; one insert was committed and
\* the other rejected
C3_Witness ==
    \E r, q \in Req :
        /\ req[r].kind = "create" /\ req[q].kind = "create"
        /\ req[r].payload = req[q].payload
        /\ Done(r) /\ Done(q)
        /\ req[r].wrote = "committed" /\ req[q].wrote = "conflict"

(***************************************************************************)
(* C4: a GET that arrives after a POST of payload P returned the id gets   *)
(* exactly the transformer's output for P, from the output map or from the *)
(* table.                                                                  *)
(***************************************************************************)
C4_ReadAfterCreate ==
    \A r \in Req :
        (req[r].kind = "read" /\ Done(r) /\ req[r].created) =>
            \A payload \in Payloads :
                calculate_payload_hash(payload) = req[r].payload_id =>
                    /\ Transform(payload).ok
                    /\ req[r].response = GetCacheResponse(Transform(payload).output)

\* after a POST of PayloadEmpty, one GET of its id answered from the table and
\* one answered from the output map
C4_Witness ==
    \E r, q \in Req :
        /\ req[r].kind = "read" /\ req[q].kind = "read"
        /\ req[r].payload_id = calculate_payload_hash(PayloadEmpty)
        /\ req[q].payload_id = calculate_payload_hash(PayloadEmpty)
        /\ req[r].created /\ req[q].created
        /\ Done(r) /\ Done(q)
        /\ req[r].hit /\ ~req[q].hit

(***************************************************************************)
(* C5: a GET whose id is in neither the output map nor the table ends in   *)
(* HTTP 404 with a detail message saying "not found"; a GET returns an     *)
(* output only for an id the table holds.                                  *)
(***************************************************************************)
SaysNotFound(message) == Len(message) = 3 /\ message[3] = " not found in cache."

C6_CreateShortCircuit ==
    \A r \in Req :
        (req[r].kind = "create" /\ req[r].hit) =>
            /\ ReturnedId(r, req[r].payload_id)
            /\ req[r].ctrl = 0
            /\ req[r].xform = 0
            /\ req[r].reads = 0
            /\ req[r].writes = 0

C6_Witness ==
    \E r \in Req : req[r].kind = "create" /\ req[r].hit /\ Done(r)

(***************************************************************************)
(* C7: a GET whose id is in REDIS_OUTPUT_CACHE when the decorator looks    *)
(* returns the mapped response; CacheController.get is not called and the  *)
(* table is not read.                                                      *)
(***************************************************************************)
C7_ReadShortCircuit ==
    \A r \in Req :
        (req[r].kind = "read" /\ req[r].hit) =>
            /\ Done(r)
            /\ req[r].response.status = 200
            /\ req[r].born = epoch =>
                  /\ req[r].payload_id \in DOMAIN REDIS_OUTPUT_CACHE
                  /\ req[r].response = REDIS_OUTPUT_CACHE[req[r].payload_id]
            /\ req[r].ctrl = 0
            /\ req[r].reads = 0

C7_Witness ==
    \E r \in Req : req[r].kind = "read" /\ req[r].hit /\ Done(r) /\ req[r].born = epoch

(***************************************************************************)
(* C8: a POST that misses REDIS_CACHED_IDS and finds the row of its id in  *)
(* the table returns the id without running the transformer and without    *)
(* an insert, and the id is in REDIS_CACHED_IDS when it returns.           *)
(***************************************************************************)
C8_StoreHit ==
    \A r \in Req :
        (req[r].kind = "create" /\ ~req[r].hit /\ req[r].found = "row") =>
            /\ req[r].xform = 0
            /\ req[r].writes = 0
            /\ Done(r) =>
                  /\ ReturnedId(r, req[r].payload_id)
                  /\ req[r].born = epoch => req[r].payload_id \in REDIS_CACHED_IDS

\* after a restart, a POST found the row written before the restart
C8_Witness ==
    \E r \in Req :
        /\ req[r].kind = "create" /\ ~req[r].hit /\ req[r].found = "row" /\ Done(r)
        /\ req[r].born = 1 /\ epoch = 1
        /\ \E q \in Req : /\ req[q].born = 0 /\ req[q].wrote = "committed"
                          /\ req[q].payload_id = req[r].payload_id

(***************************************************************************)
(* C9: no step of a POST whose payload the transformer rejects changes the *)
(* table, REDIS_CACHED_IDS or REDIS_OUTPUT_CACHE, and the POST ends in the *)
(* error the ValueError is turned into (HTTP 400).                         *)
(***************************************************************************)
C9_ValidationErrorNoEffect ==
    [][\A r \in Req :
          (req[r].kind = "create" /\ ~Transform(req[r].payload).ok /\ req'[r] # req[r]) =>
              /\ UNCHANGED <<cache_payloads, REDIS_CACHED_IDS, REDIS_OUTPUT_CACHE>>
              /\ req'[r].pc = "done" =>
                    /\ req'[r].response.status = 400
                    /\ req'[r].xform = 1]_vars

C9_Witness ==
    \E r \in Req :
        /\ req[r].kind = "create" /\ Done(r) /\ req[r].xform = 1
        /\ ~Transform(req[r].payload).ok
        /\ req[r].response.status = 400

(***************************************************************************)
(* C10: a POST whose insert fails with a database error ends in an error   *)
(* (HTTP 500) and does not add its id to REDIS_CACHED_IDS: if the id is in *)
(* the registry, another POST that returned it in this epoch put it there. *)
(***************************************************************************)
C10_StoreErrorSurfaced ==
    \A r \in Req :
        req[r].wrote = "error" =>
            /\ Done(r)
            /\ req[r].response.status = 500
            /\ req[r].payload_id \in REDIS_CACHED_IDS =>
                  \E q \in Req \ {r} :
                      /\ req[q].kind = "create" /\ ~req[q].hit /\ req[q].born = epoch
                      /\ ReturnedId(q, req[r].payload_id)

\* the insert of the only POST of a payload failed
C10_Witness ==
    \E r \in Req :
        /\ req[r].wrote = "error" /\ Done(r)
        /\ Creates(req[r].payload) = {r}
        /\ req[r].payload_id \notin REDIS_CACHED_IDS

(***************************************************************************)
(* C12                                                                     *)
(***************************************************************************)
\* element k of the combined list: a0, b0, a1, b1, ... each one normalized
InOrder(payload) ==
    [k \in 1..(2 * Len(payload.list_1)) |->
        IF k % 2 = 1 THEN CollapseWhitespace(payload.list_1[(k + 1) \div 2])
        ELSE CollapseWhitespace(payload.list_2[k \div 2])]

\* the call of transform has returned successfully
Transformed == unit.fn = "transform" /\ unit.done /\ unit.result.ok

\* C12: whenever transform succeeds on lists a and b of equal length n, its
\* output is the 2n normalized elements in the order a0, b0, a1, b1, ...,
\* joined with ", " and upper-cased.
C12_Interleaved ==
    Transformed =>
        /\ Len(unit.arg.list_1) = Len(unit.arg.list_2)
        /\ unit.result.output = Upper(Join(<<",", " ">>, InOrder(unit.arg)))

\* a = ["a", "\tb  c "], b = ["a", "a"] gives "A, A, B C, A"
C12_Witness ==
    /\ Transformed
    /\ unit.arg = [list_1 |-> <<ElemShort, ElemSpaced>>, list_2 |-> <<ElemShort, ElemShort>>]
    /\ unit.result.output = <<"A", ",", " ", "A", ",", " ", "B", " ", "C", ",", " ", "A">>

(***************************************************************************)
(* C13                                                                     *)
(***************************************************************************)
\* the value is a list (neither None nor another non-list)
IsList(value) == value \notin {NoneList, NotAList}

\* the lists of the payload that are lists
ListsOf(payload) == {l \in {payload.list_1, payload.list_2} : IsList(l)}

ListMissing(payload) == ListsOf(payload) # {payload.list_1, payload.list_2}

LengthsDiffer(payload) ==
    /\ ~ListMissing(payload)
    /\ Len(payload.list_1) # Len(payload.list_2)

ElementNotStr(payload) ==
    \E l \in ListsOf(payload) : \E i \in 1..Len(l) : l[i] = NonStr

ElementOverCap(payload) ==
    \E l \in ListsOf(payload) : \E i \in 1..Len(l) :
        l[i] # NonStr /\ Len(CollapseWhitespace(l[i])) > MAX_ITEM_LENGTH

CountOverCap(payload) == \E l \in ListsOf(payload) : Len(l) > MAX_ITEMS

\* the length of the joined output: the elements and the separators
JoinedLength(payload) ==
    SumOver(1..Len(payload.list_1),
            [i \in 1..Len(payload.list_1) |->
                Len(CollapseWhitespace(payload.list_1[i]))
                + Len(CollapseWhitespace(payload.list_2[i]))])
    + (IF payload.list_1 = <<>> THEN 0 ELSE 2 * (2 * Len(payload.list_1) - 1))

OutputOverCap(payload) ==
    /\ ~ListMissing(payload)
    /\ ~LengthsDiffer(payload)
    /\ ~ElementNotStr(payload)
    /\ JoinedLength(payload) > MAX_TOTAL_OUTPUT_CHARS

\* C13: transform fails with a ValueError exactly when a list is missing
\* (the field holds None or a value that is no list), the lengths differ, an
\* element is no str, a normalized element is longer than MAX_ITEM_LENGTH, a
\* list has more than MAX_ITEMS elements, or the joined output is longer than
\* MAX_TOTAL_OUTPUT_CHARS; in every other case it succeeds.
C13_FailsExactlyWhen ==
    (unit.fn = "transform" /\ unit.done) =>
        /\ ~unit.result.ok <=>
              \/ ListMissing(unit.arg)
              \/ LengthsDiffer(unit.arg)
              \/ ElementNotStr(unit.arg)
              \/ ElementOverCap(unit.arg)
              \/ CountOverCap(unit.arg)
              \/ OutputOverCap(unit.arg)
        /\ ~unit.result.ok => unit.result.error = "ValueError"

\* accepted with an element of exactly MAX_ITEM_LENGTH characters, lists of
\* exactly MAX_ITEMS elements and an output of exactly MAX_TOTAL_OUTPUT_CHARS
C13_Witness ==
    /\ Transformed
    /\ Len(unit.arg.list_1) = MAX_ITEMS
    /\ \E i \in 1..Len(unit.arg.list_1) :
          Len(CollapseWhitespace(unit.arg.list_1[i])) = MAX_ITEM_LENGTH
    /\ JoinedLength(unit.arg) = MAX_TOTAL_OUTPUT_CHARS

(***************************************************************************)
(* C15                                                                     *)
(***************************************************************************)
\* C15: the canonical serialization is injective: no payload other than the
\* one hashed (another element, another order, other element boundaries,
\* an element in the other list) has the serialization that was digested.
C15_Injective ==
    (unit.fn = "hash" /\ unit.done) =>
        /\ unit.result = Sha256(JsonDumpsPayload(unit.arg))
        /\ \A p \in HashInputs :
              p # unit.arg => JsonDumpsPayload(p) # JsonDumpsPayload(unit.arg)

\* ["aa", "a"] hashed, while ["a", "aa"] is a payload too
C15_Witness ==
    /\ unit.fn = "hash" /\ unit.done
    /\ unit.arg = [list_1 |-> <<ElemDouble, ElemShort>>, list_2 |-> <<>>]
    /\ [list_1 |-> <<ElemShort, ElemDouble>>, list_2 |-> <<>>] \in HashInputs
    /\ [list_1 |-> <<ElemDouble>>, list_2 |-> <<ElemShort>>] \in HashInputs
    /\ unit.result # calculate_payload_hash([list_1 |-> <<ElemShort, ElemDouble>>, list_2 |-> <<>>])

(***************************************************************************)
(* C11                                                                     *)
(***************************************************************************)
\* the rows the table holds for a payload id
RowsOf(payload_id) ==
    SelectSeq(cache_payloads, LAMBDA row : row.payload_id = payload_id)

\* C11: a stored entry is write-once: once the table holds a row for a
\* payload id, no step of any request (a later POST or GET, a concurrent
\* writer that loses, a restart) changes or removes the row, its
\* input_payload or its output_payload.
C11_WriteOnce ==
    [][\A payload_id \in Ids :
          RowsOf(payload_id) # <<>> => RowsOf(payload_id)' = RowsOf(payload_id)]_vars

\* a writer lost against the row of another request, a GET of the id was
\* served after that, and the row is the one the winner wrote
C11_Witness ==
    \E r, q, g \in Req :
        /\ req[r].kind = "create" /\ Done(r) /\ req[r].wrote = "conflict"
        /\ req[q].kind = "create" /\ req[q].wrote = "committed"
        /\ req[q].payload_id = req[r].payload_id
        /\ req[g].kind = "read" /\ Done(g) /\ req[g].payload_id = req[r].payload_id
        /\ Len(RowsOf(req[r].payload_id)) = 1
        /\ RowsOf(req[r].payload_id)[1].input_payload = JsonDumpsPayload(req[q].payload)
        /\ RowsOf(req[r].payload_id)[1].output_payload =
              JsonDumpsResponse(GetCacheResponse(req[q].parsed))

(***************************************************************************)
(* C14                                                                     *)
(***************************************************************************)
\* the POST requests whose identifier has been computed
Hashed == {r \in Req : req[r].kind = "create" /\ req[r].payload_id # <<>>}

Mismatched ==
    {r \in Req : /\ req[r].kind = "create"
                 /\ Len(req[r].payload.list_1) # Len(req[r].payload.list_2)}

\* C16: a POST whose lists differ in length is answered with a client error
\* (4xx) and has no effect: the controller and the transformer are not
\* called for it, it reads and writes no row, and the identifier of its body
\* is neither in REDIS_CACHED_IDS nor in the table.
C16_MismatchRejected ==
    /\ \A r \in Mismatched :
          /\ Done(r)
          /\ req[r].response.status \in 400..499
          /\ req[r].xform = 0 /\ req[r].ctrl = 0
          /\ req[r].reads = 0 /\ req[r].writes = 0
    /\ \A body \in Bodies :
          Len(body.list_1) # Len(body.list_2) =>
              /\ calculate_payload_hash(body) \notin REDIS_CACHED_IDS
              /\ ~StoreHolds(calculate_payload_hash(body))

\* a mismatched POST answered 422 after another POST has filled the table
\* and the registry
C16_Witness ==
    \E r \in Mismatched, q \in Req :
        /\ req[r].response.status = 422
        /\ q < r /\ req[q].wrote = "committed" /\ Done(q)
        /\ REDIS_CACHED_IDS = {req[q].payload_id}
        /\ Len(cache_payloads) = 1

(***************************************************************************)
(* C17                                                                     *)
(***************************************************************************)
\* the exceptions the except Exception clause of exception_handler catches:
\* each type with each message
UnexpectedErrors ==
    [type : {"OperationalError", "IntegrityError", "RuntimeError"},
     status : {0},
     detail : {<<fault>> : fault \in Faults \ {"none"}}]

C18_EmptyPayload ==
    /\ \A r \in Creates(PayloadEmpty) :
          /\ req[r].xform > 0 => req[r].parsed = <<>> /\ req[r].response.status # 400
          /\ req[r].wrote = "committed" =>
                \E i \in 1..Len(cache_payloads) :
                    /\ cache_payloads[i].payload_id = req[r].payload_id
                    /\ cache_payloads[i].output_payload =
                          <<"{", "\"", "o", "u", "t", "p", "u", "t", "\"", ":", " ",
                            "\"", "\"", "}">>
    /\ \A g \in Req :
          /\ req[g].kind = "read" /\ Done(g) /\ req[g].created
          /\ req[g].payload_id = calculate_payload_hash(PayloadEmpty)
          => req[g].response = GetCacheResponse(<<>>)

\* POST of the empty payload, then a GET served from the table and a GET
\* served from REDIS_OUTPUT_CACHE, both with the empty output
C18_Witness ==
    \E r \in Creates(PayloadEmpty), g, h \in Req :
        /\ ReturnedId(r, calculate_payload_hash(PayloadEmpty))
        /\ req[r].wrote = "committed"
        /\ req[g].kind = "read" /\ Done(g) /\ req[g].found = "row"
        /\ req[h].kind = "read" /\ Done(h) /\ req[h].hit
        /\ req[g].response = GetCacheResponse(<<>>)
        /\ req[h].response = GetCacheResponse(<<>>)
        /\ req[g].response.status = 200

(***************************************************************************)
(* C19                                                                     *)
(***************************************************************************)
\* the state of an identifier: Cached when the table holds its row,
\* Computing when it does not and a POST has called the transformer for it
\* and has its insert still ahead, Unknown otherwise
Cached(payload_id) == StoreHolds(payload_id)

Computing(payload_id) ==
    /\ ~Cached(payload_id)
    /\ \E r \in Req : /\ req[r].pc = "ctrl_write"
                       /\ req[r].payload_id = payload_id

Unknown(payload_id) == ~Cached(payload_id) /\ ~Computing(payload_id)

\* C19 as stated: an identifier that is Computing is not Unknown after the
\* next step, and one that is Cached stays Cached.
C19_AsStated ==
    [][\A payload_id \in Ids :
          /\ Computing(payload_id) => ~Unknown(payload_id)'
          /\ Cached(payload_id) => Cached(payload_id)']_vars

\* C19: the state of an identifier moves forward, Unknown to Computing to
\* Cached, and a Cached identifier stays Cached; the one step back, from
\* Computing to Unknown, is the insert of the computing POST failing with a
\* database error (answered 500).
C19_ForwardOnly ==
    [][\A payload_id \in Ids :
          /\ Cached(payload_id) => Cached(payload_id)'
          /\ Unknown(payload_id) => ~Cached(payload_id)'
          /\ (Computing(payload_id) /\ Unknown(payload_id)') =>
                \E r \in Req :
                    /\ req[r].pc = "ctrl_write"
                    /\ req[r].payload_id = payload_id
                    /\ req'[r].wrote = "error"
                    /\ req'[r].response.status = 500]_vars

\* an identifier that went back to Unknown when an insert failed, was
\* computed again and is Cached, also after a restart
C19_Witness ==
    \E r, q \in Req :
        /\ req[r].wrote = "error" /\ Done(r)
        /\ req[q].wrote = "committed" /\ Done(q)
        /\ r < q
        /\ req[q].payload_id = req[r].payload_id
        /\ Cached(req[q].payload_id)
        /\ epoch = 1

(***************************************************************************)
(* C20                                                                     *)
(***************************************************************************)
\* C20: a POST that arrives when the table already holds the row of its
\* identifier does not call the transformer, in any interleaving and after
\* a restart: every POST that called the transformer arrived before the
\* first insert of its identifier was committed.
C20_NoTransformAfterStored ==
    \A r \in Req :
        (req[r].kind = "create" /\ req[r].stored) =>
            /\ req[r].xform = 0
            /\ req[r].writes = 0

\* a POST that arrived after a restart with the row in the table and
\* returned the id from the store lookup, and two earlier POSTs of the
\* payload that both called the transformer
C20_Witness ==
    \E r, q, t \in Req :
        /\ q < t /\ t < r
        /\ req[q].payload = req[r].payload /\ req[t].payload = req[r].payload
        /\ req[q].xform = 1 /\ req[t].xform = 1
        /\ ~req[q].stored /\ ~req[t].stored
        /\ req[r].kind = "create" /\ req[r].stored /\ req[r].born = 1
        /\ ReturnedId(r, req[r].payload_id)
        /\ req[r].found = "row" /\ req[r].xform = 0

(***************************************************************************)
(* C21                                                                     *)
(***************************************************************************)
\* the positions inside a with _CACHE_LOCK block
InLockBlock(r) == req[r].pc \in {"post_check", "post_add", "get_check", "get_put"}

\* the positions at which the next step of the request reads the table,
\* calls the transformer or inserts a row
AtStoreOrTransformer(r) ==
    req[r].pc \in {"ctrl_lookup", "ctrl_transform", "ctrl_write", "ctrl_get"}

\* C21: _CACHE_LOCK is held only around the accesses to the registries: a
\* request that holds it is inside one of the four with blocks, and no
\* request holds it while it is about to read the table, call the
\* transformer or insert a row.
C21_LockOnlyAroundRegistries ==
    \A r \in Req :
        /\ CACHE_LOCK = r => InLockBlock(r)
        /\ AtStoreOrTransformer(r) => CACHE_LOCK # r

\* one request is about to insert its row while another holds the lock
C21_Witness ==
    \E r, q \in Req :
        /\ req[r].pc = "ctrl_write"
        /\ CACHE_LOCK = q /\ q # r
        /\ req[q].pc = "post_check"

(***************************************************************************)
(* C22                                                                     *)
(***************************************************************************)
\* C22: a request reads or writes REDIS_CACHED_IDS or REDIS_OUTPUT_CACHE
\* only while it holds _CACHE_LOCK, and at most one request holds it: a
\* request inside a with block is the holder of the lock, no two requests
\* are inside a with block together, and a step that changes a registry is
\* a step of the holder (or the start of the process).
C22_RegistriesUnderLock ==
    [][/\ \A r \in Req : InLockBlock(r) => CACHE_LOCK = r
       /\ \A r, q \in Req : (InLockBlock(r) /\ InLockBlock(q)) => r = q
       /\ (REDIS_CACHED_IDS' # REDIS_CACHED_IDS
              \/ REDIS_OUTPUT_CACHE' # REDIS_OUTPUT_CACHE) =>
             \/ epoch' # epoch
             \/ \E r \in Req : /\ CACHE_LOCK = r
                                /\ req[r].pc \in {"post_add", "get_put"}
                                /\ req'[r].pc = "done"]_vars

\* a POST is inside its second with block while a POST and a GET wait for
\* the lock
C22_Witness ==
    \E r, q, g \in Req :
        /\ req[r].pc = "post_add" /\ CACHE_LOCK = r
        /\ req[q].pc = "post_lock"
        /\ req[g].pc = "get_lock"

(***************************************************************************)
(* C23                                                                     *)
(***************************************************************************)
\* C23: a POST that returns an identifier after the decorator missed
\* REDIS_CACHED_IDS (the row was inserted, or was found in the table) has
\* called CacheController.create exactly once, and the identifier is in
\* REDIS_CACHED_IDS when it returns (and until the process restarts).
C23_RegisteredOnReturn ==
    \A r \in Req :
        (req[r].kind = "create" /\ Done(r) /\ ~req[r].hit
            /\ req[r].response.status = 200) =>
            /\ req[r].ctrl = 1
            /\ req[r].wrote = "committed" \/ req[r].found = "row"
            /\ req[r].response.payload_id = req[r].payload_id
            /\ req[r].born = epoch => req[r].payload_id \in REDIS_CACHED_IDS

\* one POST returned after its insert and another after finding the row
C23_Witness ==
    \E r, q \in Req :
        /\ req[r].kind = "create" /\ Done(r) /\ req[r].wrote = "committed"
        /\ req[q].kind = "create" /\ Done(q) /\ req[q].found = "row" /\ ~req[q].hit
        /\ req[r].born = epoch /\ req[q].born = epoch
        /\ req[r].payload_id # req[q].payload_id
        /\ {req[r].payload_id, req[q].payload_id} \subseteq REDIS_CACHED_IDS

(***************************************************************************)
(* C30                                                                     *)
(***************************************************************************)
\* C30: every identifier in REDIS_CACHED_IDS has its row in the table, in
\* every reachable state: failed inserts and rejected payloads register
\* nothing.
C30_RegisteredImpliesStored ==
    \A payload_id \in REDIS_CACHED_IDS : StoreHolds(payload_id)

\* an identifier is registered after an insert of it failed and a retry
\* committed, and a rejected payload was posted as well
C30_Witness ==
    \E r, q, t \in Req :
        /\ req[r].wrote = "error" /\ Done(r)
        /\ req[q].wrote = "committed" /\ req[q].payload_id = req[r].payload_id
        /\ req[t].kind = "create" /\ Done(t) /\ req[t].response.status = 400
        /\ REDIS_CACHED_IDS = {req[q].payload_id}

(***************************************************************************)
(* C24                                                                     *)
(***************************************************************************)
\* the GET requests that missed REDIS_OUTPUT_CACHE, found the row and have
\* returned its output in the running process
Populated ==
    {g \in Req : /\ req[g].kind = "read" /\ Done(g) /\ ~req[g].hit
                 /\ req[g].found = "row" /\ req[g].born = epoch}

\* C24: a GET that misses REDIS_OUTPUT_CACHE and finds the row puts its
\* response into the map, and every GET of the same id that arrives in the
\* same process after that is answered from the map, with the same output
\* and without a read of the table.
C24_ReadThrough ==
    /\ \A g \in Populated :
          /\ req[g].payload_id \in DOMAIN REDIS_OUTPUT_CACHE
          /\ REDIS_OUTPUT_CACHE[req[g].payload_id] = req[g].response
    /\ \A h \in Req :
          (req[h].kind = "read" /\ req[h].mapped /\ Done(h)) =>
              /\ req[h].hit
              /\ req[h].ctrl = 0 /\ req[h].reads = 0
              /\ req[h].response.status = 200
              /\ \A g \in Req :
                    (req[g].kind = "read" /\ Done(g) /\ req[g].found = "row"
                        /\ req[g].payload_id = req[h].payload_id) =>
                        req[h].response = req[g].response

\* a POST, a GET of its id answered from the table, then a GET of the id
\* that arrived with the id in the map and got the same response
C24_Witness ==
    \E g \in Populated, h \in Req :
        /\ req[h].kind = "read" /\ req[h].mapped /\ Done(h)
        /\ req[h].payload_id = req[g].payload_id
        /\ req[h].response = req[g].response
        /\ req[h].reads = 0
        /\ CreateReturned(req[g].payload_id)

(***************************************************************************)
(* C25                                                                     *)
(***************************************************************************)
\* the POST requests that ended in a failure of the database
FailedWrites == {r \in Req : req[r].kind = "create" /\ Done(r) /\ req[r].wrote = "error"}

\* C25: requests served one after another.  A POST whose insert failed
\* leaves no row: while no POST of the payload has committed, the table
\* holds no row of the identifier and the registry does not hold it.  A
\* later POST of the same payload that arrives with no row in the table
\* runs the whole of CacheController.create again, transformer and insert,
\* and when its insert commits it returns the identifier of the payload.
C25_RetryAfterStoreError ==
    \A r \in FailedWrites :
        /\ (\A q \in Creates(req[r].payload) : req[q].wrote # "committed") =>
              /\ ~StoreHolds(req[r].payload_id)
              /\ req[r].payload_id \notin REDIS_CACHED_IDS
        /\ \A q \in Creates(req[r].payload) :
              (q > r /\ Done(q) /\ ~req[q].stored) =>
                  /\ req[q].ctrl = 1 /\ req[q].xform = 1 /\ req[q].writes = 1
                  /\ req[q].wrote = "committed" =>
                        /\ ReturnedId(q, calculate_payload_hash(req[r].payload))
                        /\ StoreHolds(calculate_payload_hash(req[r].payload))

\* the insert failed twice, the third POST of the payload committed and
\* returned the identifier
C25_Witness ==
    \E r, q \in FailedWrites, t \in Req :
        /\ r < q /\ q < t
        /\ req[q].payload = req[r].payload /\ req[t].payload = req[r].payload
        /\ req[t].kind = "create" /\ req[t].xform = 1 /\ req[t].wrote = "committed"
        /\ ReturnedId(t, req[r].payload_id)

(***************************************************************************)
(* C26                                                                     *)
(***************************************************************************)
RECURSIVE Words(_)
\* the maximal runs of non-whitespace characters of a string, in order
Words(t) ==
    IF t = <<>> THEN <<>>
    ELSE IF IsSpace(Head(t)) THEN Words(Tail(t))
    ELSE LET n == IF \E i \in 1..Len(t) : IsSpace(t[i])
                  THEN (CHOOSE i \in 1..Len(t) :
                           IsSpace(t[i]) /\ \A j \in 1..(i - 1) : ~IsSpace(t[j])) - 1
                  ELSE Len(t)
         IN  <<SubSeq(t, 1, n)>> \o Words(SubSeq(t, n + 1, Len(t)))

\* C26: the normalized element is the words of the element joined by single
\* spaces: no whitespace at either end, every run of whitespace characters
\* (space, tab, newline, carriage return, vertical tab, form feed) inside
\* replaced by one space; normalizing the result again changes nothing.
C26_WordsJoined ==
    (unit.fn = "collapse" /\ unit.done) =>
        /\ unit.result = Join(<<" ">>, Words(unit.arg))
        /\ \A i \in 1..Len(unit.result) :
              IsSpace(unit.result[i]) =>
                  /\ unit.result[i] = " "
                  /\ 1 < i /\ i < Len(unit.result)
                  /\ ~IsSpace(unit.result[i + 1])
        /\ CollapseWhitespace(unit.result) = unit.result

(***************************************************************************)
(* C27                                                                     *)
(***************************************************************************)
\* C27: the output of a successful transform, measured on the upper-cased
\* string that is returned, is at most MAX_TOTAL_OUTPUT_CHARS long.
C27_OutputWithinCap ==
    Transformed => Len(unit.result.output) <= MAX_TOTAL_OUTPUT_CHARS

(***************************************************************************)
(* C28                                                                     *)
(***************************************************************************)
\* the request has called the transformer and the call raised
TransformRaised(q) == req[q].xform > 0 /\ req[q].response.status = 400

\* the request has called the transformer and the call returned
TransformReturned(q) == req[q].xform > 0 /\ req[q].response.status # 400

\* C28: transform is pure.  The step of a request that calls it leaves
\* REDIS_CACHED_IDS, REDIS_OUTPUT_CACHE, the lock and the table as they
\* are and leaves the two lists of the payload as they are, and its result
\* is the one every other call with the same payload had: the same output
\* or the same ValueError.
C28_Pure ==
    [][\A r \in Req :
          (req[r].pc = "ctrl_transform" /\ req'[r] # req[r]) =>
              /\ UNCHANGED <<REDIS_CACHED_IDS, REDIS_OUTPUT_CACHE, CACHE_LOCK,
                             cache_payloads>>
              /\ req'[r].payload = req[r].payload
              /\ req'[r].xform = req[r].xform + 1
              /\ \A q \in Creates(req[r].payload) \ {r} :
                    /\ TransformRaised(q) =>
                          /\ TransformRaised(r)'
                          /\ req'[r].response = req[q].response
                    /\ TransformReturned(q) =>
                          /\ TransformReturned(r)'
                          /\ req'[r].parsed = req[q].parsed]_vars

\* the transformer called twice with a payload it accepts and once with a
\* payload it refuses
C28_Witness ==
    \E r, q, t \in Req :
        /\ r # q
        /\ req[r].payload = req[q].payload
        /\ TransformReturned(r) /\ TransformReturned(q)
        /\ req[r].parsed = req[q].parsed
        /\ req[r].payload = PayloadB
        /\ TransformRaised(t)

(***************************************************************************)
(* C29                                                                     *)
(***************************************************************************)
\* the POST requests that arrived after a restart with the row of their
\* identifier in the table, missed the registry and have returned
AfterRestartStored ==
    {r \in Req : /\ req[r].kind = "create" /\ Done(r)
                 /\ req[r].born > 0 /\ req[r].stored /\ ~req[r].hit}

\* C29 as stated: after a restart, a POST of a payload whose row is in the
\* table calls the transformer again and attempts the insert again.
C29_AsStated ==
    \A r \in AfterRestartStored : req[r].xform = 1 /\ req[r].writes = 1

\* C29: after a restart, a POST of a payload whose row is in the table
\* misses the registry, reads the table once, finds the row and returns the
\* identifier: it neither calls the transformer nor attempts an insert.
C29_StoreConsulted ==
    \A r \in AfterRestartStored :
        /\ req[r].ctrl = 1 /\ req[r].reads = 1
        /\ req[r].found = "row"
        /\ req[r].xform = 0 /\ req[r].writes = 0
        /\ ReturnedId(r, req[r].payload_id)
        /\ Len(RowsOf(req[r].payload_id)) = 1

\* the row written before the restart, the POST of the same payload after
\* it, and the id back in the registry
C29_Witness ==
    \E r \in AfterRestartStored, q \in Req :
        /\ req[q].born = 0 /\ req[q].wrote = "committed" /\ req[q].xform = 1
        /\ req[q].payload = req[r].payload
        /\ req[r].payload_id \in REDIS_CACHED_IDS
        /\ TransformerCalls(req[r].payload) = 1

(***************************************************************************)
(* C31: in every reachable state, every identifier of REDIS_OUTPUT_CACHE   *)
(* has a row in the table, and the output mapped to it is the output       *)
(* stored in that row: the row's output_payload is the JSON text of the    *)
(* mapped output.  So a GET answered from the map and a GET of the same    *)
(* identifier answered from the table return the same response.            *)
(***************************************************************************)
C31_MapAgreesWithStore ==
    /\ \A payload_id \in DOMAIN REDIS_OUTPUT_CACHE :
          /\ StoreHolds(payload_id)
          /\ REDIS_OUTPUT_CACHE[payload_id].status = 200
          /\ RowsOf(payload_id)[1].output_payload =
                JsonDumpsResponse(REDIS_OUTPUT_CACHE[payload_id])
    /\ \A r, q \in Req :
          (/\ req[r].kind = "read" /\ req[q].kind = "read"
           /\ req[r].payload_id = req[q].payload_id
           /\ Done(r) /\ Done(q)
           /\ req[r].hit /\ req[q].found = "row") =>
              req[r].response = req[q].response

\* the map holds the output of PayloadA's row ("A, B"), one GET of the id
\* was answered from the table and another from the map
C31_Witness ==
    /\ calculate_payload_hash(PayloadA) \in DOMAIN REDIS_OUTPUT_CACHE
    /\ REDIS_OUTPUT_CACHE[calculate_payload_hash(PayloadA)].output = <<"A", ",", " ", "B">>
    /\ \E r, q \in Req :
          /\ req[r].kind = "read" /\ req[q].kind = "read"
          /\ req[r].payload_id = calculate_payload_hash(PayloadA)
          /\ req[q].payload_id = calculate_payload_hash(PayloadA)
          /\ Done(r) /\ Done(q)
          /\ req[r].hit /\ req[q].found = "row"

(***************************************************************************)
(* C32: every POST that returns without error returns exactly the          *)
(* identifier computed from its own payload, whichever way it was          *)
(* answered: from REDIS_CACHED_IDS, from a row found in the table (the     *)
(* value returned is the row's payload_id), or after a transformer run     *)
(* and a committed insert.                                                 *)
(***************************************************************************)
C32_ReturnsOwnId ==
    \A r \in Req :
        (req[r].kind = "create" /\ Done(r) /\ req[r].response.status = 200) =>
            /\ req[r].response =
                  CreateCachePayloadResponse(calculate_payload_hash(req[r].payload))
            /\ \/ req[r].hit
               \/ req[r].found = "row"
               \/ req[r].wrote = "committed"

\* three POSTs returned, one on each of the three paths
C32_Witness ==
    \E r, q, s \in Req :
        /\ req[r].kind = "create" /\ req[q].kind = "create" /\ req[s].kind = "create"
        /\ Done(r) /\ Done(q) /\ Done(s)
        /\ req[r].response.status = 200
        /\ req[q].response.status = 200
        /\ req[s].response.status = 200
        /\ req[r].hit
        /\ req[q].found = "row"
        /\ req[s].wrote = "committed"

\* the GETs of an identifier that ended in not-found
NotFoundReads(payload_id) ==
    {q \in Req : /\ req[q].kind = "read" /\ req[q].payload_id = payload_id
                 /\ Done(q) /\ req[q].response.status = 404}

(***************************************************************************)
(* C33: no negative caching.  The step in which a GET finds no row ends    *)
(* the request with 404 and leaves REDIS_OUTPUT_CACHE, REDIS_CACHED_IDS    *)
(* and the table as they were; and a GET that arrives after a POST         *)
(* returned the identifier is answered with the row's output, also when    *)
(* earlier GETs of that identifier ended in not-found.                     *)
(***************************************************************************)
C33_NoNegativeCaching ==
    [][/\ \A r \in Req :
             (req[r].pc = "ctrl_get" /\ req'[r].found = "nothing") =>
                 /\ req'[r].pc = "done"
                 /\ req'[r].response.status = 404
                 /\ UNCHANGED <<REDIS_OUTPUT_CACHE, REDIS_CACHED_IDS, cache_payloads>>
       /\ \A g \in Req :
             (/\ req'[g].kind = "read" /\ req'[g].pc = "done" /\ req'[g].created
              /\ \E q \in Req :
                    /\ q < g
                    /\ req'[q].kind = "read" /\ req'[q].payload_id = req'[g].payload_id
                    /\ req'[q].pc = "done" /\ req'[q].response.status = 404) =>
                 /\ req'[g].response.status = 200
                 /\ cache_payloads'[CHOOSE i \in 1..Len(cache_payloads') :
                        cache_payloads'[i].payload_id = req'[g].payload_id].output_payload
                       = JsonDumpsResponse(req'[g].response)
      ]_vars

\* a GET of PayloadA's identifier ended in not-found, a POST of PayloadA
\* then returned the identifier, and a GET that arrived after that got "A, B"
C33_Witness ==
    /\ req[1].kind = "read" /\ req[2].kind = "create" /\ req[3].kind = "read"
    /\ req[1].payload_id = calculate_payload_hash(PayloadA)
    /\ req[2].payload = PayloadA
    /\ req[3].payload_id = calculate_payload_hash(PayloadA)
    /\ 1 \in NotFoundReads(calculate_payload_hash(PayloadA))
    /\ ReturnedId(2, calculate_payload_hash(PayloadA))
    /\ req[3].created /\ Done(3)
    /\ req[3].response = GetCacheResponse(<<"A", ",", " ", "B">>)

(***************************************************************************)
(* C34: the two fast paths are filled independently.  No step of a POST    *)
(* changes REDIS_OUTPUT_CACHE, no step of a GET changes REDIS_CACHED_IDS   *)
(* or the table; and a GET is answered from the map only when another GET  *)
(* of the identifier found the row in the same process, so the first GET   *)
(* of an identifier in a process reads the table, also directly after the  *)
(* POST that created it.                                                   *)
(***************************************************************************)
C34_IndependentFastPaths ==
    [][/\ \A r \in Req :
             (req'[r] # req[r]) =>
                 /\ (req'[r].kind = "create") => UNCHANGED REDIS_OUTPUT_CACHE
                 /\ (req'[r].kind = "read") =>
                        UNCHANGED <<REDIS_CACHED_IDS, cache_payloads>>
       /\ \A g \in Req :
             (req'[g].kind = "read" /\ req'[g].pc = "done") =>
                 IF \E q \in Req \ {g} :
                        /\ req'[q].kind = "read"
                        /\ req'[q].payload_id = req'[g].payload_id
                        /\ req'[q].born = req'[g].born
                        /\ req'[q].found = "row"
                 THEN TRUE
                 ELSE ~req'[g].hit /\ req'[g].reads = 1
      ]_vars

\* a POST of PayloadA returned the identifier and the GET that arrived next,
\* the only GET of the identifier, missed the map and read the row
C34_Witness ==
    /\ req[1].kind = "create" /\ req[1].payload = PayloadA
    /\ ReturnedId(1, calculate_payload_hash(PayloadA))
    /\ req[2].kind = "read" /\ req[2].payload_id = calculate_payload_hash(PayloadA)
    /\ req[2].created /\ req[2].born = req[1].born
    /\ Done(2) /\ ~req[2].hit /\ req[2].reads = 1 /\ req[2].found = "row"
    /\ req[3].kind # "read"
    /\ calculate_payload_hash(PayloadA) \in REDIS_CACHED_IDS
    /\ calculate_payload_hash(PayloadA) \in DOMAIN REDIS_OUTPUT_CACHE

(***************************************************************************)
(* Fair scheduling: as long as some request can take its next step (its    *)
(* thread is runnable, or the lock it waits for is free), a request        *)
(* eventually takes a step.  The requests are a payload that is stored, a  *)
(* payload the transformer rejects, a body the request model rejects and   *)
(* GETs of the first payload's identifier.  A restart needs every request  *)
(* answered, so it has no part in whether a request in flight is answered. *)
(***************************************************************************)
LiveBodies == {PayloadA, PayloadLong, PayloadMismatch}

LiveIds == {calculate_payload_hash(PayloadA)}

NextLive ==
    /\ \/ \E r \in Req, payload \in LiveBodies : PostArrive(r, payload)
       \/ \E r \in Req, payload \in LiveBodies : PostRejected(r, payload)
       \/ \E r \in Req, payload_id \in LiveIds : GetArrive(r, payload_id)
       \/ \E r \in Req : Step(r)
    /\ UNCHANGED unit

SpecFair ==
    /\ Init
    /\ [][NextLive]_vars
    /\ WF_vars((\E r \in Req : Step(r)) /\ UNCHANGED unit)

\* the request has arrived and has not been answered
InFlight(r) == req[r].pc \notin {"idle", "done"}

(***************************************************************************)
(* C35: the registry lock is released on every path: a request holds it    *)
(* only inside one of the four with blocks, never once it is answered      *)
(* (fast-path hit, result or error); whenever requests are in flight one   *)
(* of them can take a step, so no deadlock is reachable; and under fair    *)
(* scheduling every request that arrived is eventually answered, with a    *)
(* result or an error.                                                     *)
(***************************************************************************)
C35_LockReleasedAndProgress ==
    /\ [](/\ CACHE_LOCK \in Req \cup {0}
          /\ \A r \in Req : (CACHE_LOCK = r) => InLockBlock(r)
          /\ (\E r \in Req : InFlight(r)) =>
                 \E q \in Req : InFlight(q) /\ ENABLED Step(q))
    /\ \A r \in Req :
          InFlight(r) ~> (Done(r) /\ req[r].response # NoResponse)

\* three requests answered and the lock free: a GET that found no row and
\* ended in the 404 error, a POST that stored the row, and a POST answered
\* from the registry by the early return
C35_Witness ==
    /\ CACHE_LOCK = 0
    /\ \A r \in Req : Done(r) /\ req[r].response # NoResponse
    /\ \E g, q, r \in Req :
          /\ req[g].kind = "read" /\ req[g].response.status = 404
          /\ req[q].kind = "create" /\ req[q].wrote = "committed"
          /\ req[r].kind = "create" /\ req[r].hit /\ req[r].response.status = 200

\* what the registry, the output map and the table hold for an identifier
EntriesOf(payload_id) ==
    [registered |-> payload_id \in REDIS_CACHED_IDS,
     mapped |-> IF payload_id \in DOMAIN REDIS_OUTPUT_CACHE
                THEN <<REDIS_OUTPUT_CACHE[payload_id]>> ELSE <<>>,
     rows |-> RowsOf(payload_id)]

(***************************************************************************)
(* C36: requests for different identifiers do not interfere.  A step of a  *)
(* POST or GET for identifier A, whether the request succeeds or fails,    *)
(* leaves the registry membership, the output-map entry and the rows of    *)
(* every other identifier B as they were.                                  *)
(***************************************************************************)
C36_NoInterference ==
    [][\A r \in Req :
          (req'[r] # req[r]) =>
              \A B \in Ids \ {req'[r].payload_id} :
                  EntriesOf(B)' = EntriesOf(B)
      ]_vars

\* a POST of PayloadEmpty and then a POST and a GET of PayloadA were
\* answered; the registry, the map and the table hold what each request put
\* for its own identifier
C36_Witness ==
    /\ req[1].kind = "create" /\ req[1].payload = PayloadEmpty
    /\ req[2].kind = "create" /\ req[2].payload = PayloadA
    /\ req[3].kind = "read" /\ req[3].payload_id = calculate_payload_hash(PayloadA)
    /\ \A r \in Req : Done(r) /\ req[r].response.status = 200
    /\ REDIS_CACHED_IDS =
          {calculate_payload_hash(PayloadEmpty), calculate_payload_hash(PayloadA)}
    /\ DOMAIN REDIS_OUTPUT_CACHE = {calculate_payload_hash(PayloadA)}
    /\ Len(RowsOf(calculate_payload_hash(PayloadEmpty))) = 1
    /\ Len(RowsOf(calculate_payload_hash(PayloadA))) = 1

\* PayloadA and the payloads that differ from it in white space or in letter
\* case only
Variants == {PayloadA, PayloadB, PayloadUpper}

(***************************************************************************)
(* C37: the identifier is computed from the payload as received, before    *)
(* normalization.  Payloads that differ only in white space or in letter   *)
(* case have equal outputs and different identifiers; and a POST of one of *)
(* them that returned its identifier rests on a transformer run for that   *)
(* very payload and on a row of its own, holding its own input.            *)
(***************************************************************************)
C37_RawPayloadHashed ==
    /\ \A p, q \in Variants :
          /\ Transform(p).ok
          /\ Transform(p).output = Transform(q).output
          /\ (p # q) => calculate_payload_hash(p) # calculate_payload_hash(q)
    /\ \A p \in Variants \cap Payloads :
          \A r \in Creates(p) :
              (Done(r) /\ req[r].response.status = 200) =>
                  /\ req[r].payload_id = calculate_payload_hash(p)
                  /\ TransformerCalls(p) >= 1
                  /\ Len(RowsOf(req[r].payload_id)) = 1
                  /\ RowsOf(req[r].payload_id)[1].input_payload = JsonDumpsPayload(p)
                  /\ \A q \in (Variants \cap Payloads) \ {p} :
                        \A i \in 1..Len(cache_payloads) :
                            cache_payloads[i].payload_id = calculate_payload_hash(q) =>
                                cache_payloads[i] # RowsOf(req[r].payload_id)[1]

\* POSTs of PayloadA and of PayloadB returned their identifiers: the
\* transformer ran once for each and the table holds two rows with the same
\* output
C37_Witness ==
    \E r, q \in Req :
        /\ req[r].kind = "create" /\ req[r].payload = PayloadA
        /\ req[q].kind = "create" /\ req[q].payload = PayloadB
        /\ Done(r) /\ Done(q)
        /\ req[r].response.status = 200 /\ req[q].response.status = 200
        /\ req[r].response.payload_id # req[q].response.payload_id
        /\ req[r].xform = 1 /\ req[q].xform = 1
        /\ Len(cache_payloads) = 2
        /\ cache_payloads[1].output_payload = cache_payloads[2].output_payload
        /\ cache_payloads[1].input_payload # cache_payloads[2].input_payload

=============================================================================
